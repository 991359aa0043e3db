------------------------- MODULE AccessGrantsProofs -------------------------
(***************************************************************************)
(* Theorems about AccessGrants, for any principals, sites and privileges,  *)
(* any number of workers and any changes made in Jamf meanwhile.           *)
(***************************************************************************)
EXTENDS AccessGrants, Least, SequenceTheorems

-----------------------------------------------------------------------------
(* The inductive invariants.                                               *)

\* The base lists in s.
Fams(s) == {s[i] : i \in DOMAIN s}

\* Jamf changes: whoever comes into existence has not existed before.
Change(v) ==
    /\ v \in [Principal -> Data \cup {Absent}]
    /\ \A p \in Principal : world[p] = Absent /\ v[p] # Absent => p \notin existed
    /\ Become(v)

\* Whose details w has.
Fetched(w) == {p \in Principal : got[w][p] # Absent}

\* A step of w's leaves what the other workers hold alone.
Others(w) ==
    \A v \in Worker \ {w} :
        /\ call'[v] = call[v]
        /\ stage'[v] = stage[v]
        /\ lists'[v] = lists[v]
        /\ queue'[v] = queue[v]
        /\ got'[v] = got[v]
        /\ Fetched(v)' = Fetched(v)

\* What a worker holds goes with its stage.
StageRight ==
    \A w \in Worker :
        /\ stage[w] = "idle" =>
              /\ call[w] = NoCall
              /\ lists[w] = <<>>
              /\ queue[w] = {}
              /\ Fetched(w) = {}
        /\ stage[w] # "idle" => call[w] \in Calls
        /\ stage[w] = "keepList" => lists[w] # <<>>
        /\ stage[w] = "keep" => queue[w] # {} /\ Min(queue[w]) \in Fetched(w)

TypeInv == TypeOK /\ StageRight

\* A call keeps to what it is about: the base lists it asks for, and the
\* entries that can be on them.  A call of List has one base list.
KeepsToCall(w) ==
    /\ Fams(lists[w]) \subseteq Fams(listsOf(call[w]))
    /\ queue[w] \subseteq Reads(call[w])
    /\ Fetched(w) \subseteq Reads(call[w])
    /\ stage[w] = "keepList" => queue[w] \subseteq Entries(Head(lists[w]))
    /\ call[w] \in Lists /\ lists[w] # <<>> => Tail(lists[w]) = <<>>
    /\ call[w] \in Lists /\ stage[w] # "keepList" /\ queue[w] # {} => lists[w] = <<>>

ListsKept ==
    \A f \in Families : listCache[f] # NoList => listCache[f] \subseteq Entries(f)

ReadsInv ==
    /\ \A w \in Worker : stage[w] # "idle" => KeepsToCall(w)
    /\ ListsKept

\* Who a fact is about: the one whose details say so.
subject(f) == IF f[1][1] = "userGroup" THEN f[1][2] ELSE f[2]

\* What the calls that read p make of its details d.
Gives(p, d) ==
    {f \in Calls \X Principal : p \in Reads(f[1]) /\ f[2] \in returned(f[1], p, d)}

\* Details that were p's at some time of this sync.
Known(p, d) ==
    /\ Gives(p, d) \subseteq ever
    /\ \A f \in always : subject(f) = p => f \in Gives(p, d)

KnowInv ==
    /\ Facts(world) \subseteq ever
    /\ always \subseteq Facts(world)
    /\ \A p \in Principal : cache[p] # NotCached => Known(p, cache[p])
    /\ \A w \in Worker : \A p \in Fetched(w) : Known(p, got[w][p])
    /\ ResultsWereTrue

\* Whatever a call has to find is still ahead of it or fetched already.
Covers(w, f) ==
    \/ subject(f) \in queue[w]
    \/ subject(f) \in Fetched(w)
    \/ \E g \in Fams(lists[w]) : subject(f) \in Entries(g)

CoverInv ==
    /\ \A w \in Worker, f \in always :
          /\ stage[w] # "idle" /\ f[1] = call[w] => Covers(w, f)
          /\ stage[w] = "keepList" /\ subject(f) \in Entries(Head(lists[w]))
                => subject(f) \in queue[w]
    /\ \A g \in Families, f \in always :
          listCache[g] # NoList /\ subject(f) \in Entries(g) => subject(f) \in listCache[g]
    /\ StableFactsFound

\* Nobody is asked for who has not existed.
ExistInv ==
    /\ \A p \in Principal : world[p] # Absent => p \in existed
    /\ \A f \in ever : f[1][1] = "list" => f[2] \in existed
    /\ \A w \in Worker : queue[w] \subseteq existed
    /\ \A f \in Families : listCache[f] # NoList => listCache[f] \subseteq existed
    /\ \A c \in todo : c[1] = "userGroup" => c[2] \in existed
    /\ SkippedByDeletion

-----------------------------------------------------------------------------
(* The operators of the model.                                             *)

\* Who can be on a base list is a principal, and on one base list only.
LEMMA EntriesDisjoint ==
    /\ \A f \in Families : Entries(f) \subseteq Principal
    /\ \A f, g \in Families : \A p : p \in Entries(f) /\ p \in Entries(g) => f = g
    /\ \A p \in Principal : \E f \in Families : p \in Entries(f)
    /\ 0 \notin Principal
    /\ "accounts" \in Families
  BY AccessAssumption DEF Entries, Families, Principal

\* What a call is about.
LEMMA CallForm ==
    ASSUME NEW c \in Calls
    PROVE  /\ c = <<c[1], c[2]>>
           /\ \/ c[1] = "list" /\ c[2] \in {"user", "userGroup", "userAccount", "group"}
              \/ c[1] = "role" /\ c[2] \in Roles
              \/ c[1] = "site" /\ c[2] \in Site
              \/ c[1] = "userGroup" /\ c[2] \in UserGroup
           /\ c \in Lists <=> c[1] = "list"
           /\ c \in Grants <=> c[1] # "list"
  BY DEF Calls, Lists, Grants

\* The base lists of a call.
LEMMA ListsOfCall ==
    ASSUME NEW c \in Calls
    PROVE  /\ c[1] = "role" => listsOf(c) = <<"accounts">>
           /\ c[1] = "site" => listsOf(c) = <<"users", "userGroups", "accounts">>
           /\ c[1] = "userGroup" => listsOf(c) = <<>>
           /\ c[1] = "list" /\ c[2] = "user" => listsOf(c) = <<"users">>
           /\ c[1] = "list" /\ c[2] = "userGroup" => listsOf(c) = <<"userGroups">>
           /\ c[1] = "list" /\ c[2] \in {"userAccount", "group"} => listsOf(c) = <<"accounts">>
  BY CallForm DEF listsOf

LEMMA FamsEmpty == Fams(<<>>) = {}
  BY DEF Fams

LEMMA FamsOne == \A x : Fams(<<x>>) = {x}
  BY DEF Fams

LEMMA FamsOfCall ==
    ASSUME NEW c \in Calls
    PROVE  /\ listsOf(c) \in Seq(Families)
           /\ c[1] = "role" => Fams(listsOf(c)) = {"accounts"}
           /\ c[1] = "site" => Fams(listsOf(c)) = Families
           /\ c[1] = "userGroup" => Fams(listsOf(c)) = {}
           /\ c[1] = "list" /\ c[2] = "user" => Fams(listsOf(c)) = {"users"}
           /\ c[1] = "list" /\ c[2] = "userGroup" => Fams(listsOf(c)) = {"userGroups"}
           /\ c[1] = "list" /\ c[2] \in {"userAccount", "group"} => Fams(listsOf(c)) = {"accounts"}
<1>1. /\ <<"accounts">> \in Seq(Families)
      /\ <<"users">> \in Seq(Families)
      /\ <<"userGroups">> \in Seq(Families)
      /\ <<>> \in Seq(Families)
      /\ <<"users", "userGroups", "accounts">> \in Seq(Families)
  BY DEF Families
<1>2. listsOf(c) \in Seq(Families)
  BY <1>1, CallForm, ListsOfCall
<1>3. Fams(<<"users", "userGroups", "accounts">>) = Families
  BY DEF Fams, Families
<1> QED
  BY <1>2, <1>3, ListsOfCall, FamsEmpty, FamsOne

LEMMA FamsHeadTail ==
    ASSUME NEW s \in Seq(Families), s # <<>>
    PROVE  /\ Head(s) \in Families
           /\ Tail(s) \in Seq(Families)
           /\ Fams(s) = {Head(s)} \cup Fams(Tail(s))
           /\ Fams(s) \subseteq Families
<1>1. /\ Head(s) \in Families
      /\ Tail(s) \in Seq(Families)
      /\ Len(s) \in Nat /\ Len(s) > 0
      /\ Len(Tail(s)) = Len(s) - 1
      /\ DOMAIN s = 1 .. Len(s)
      /\ DOMAIN Tail(s) = 1 .. Len(Tail(s))
      /\ Head(s) = s[1]
      /\ \A i \in 1 .. Len(Tail(s)) : Tail(s)[i] = s[i + 1]
      /\ \A i \in 1 .. Len(s) : s[i] \in Families
  OBVIOUS
<1>2. ASSUME NEW i \in 1 .. Len(s)
      PROVE  s[i] = Head(s) \/ s[i] \in Fams(Tail(s))
  <2>1. CASE i = 1
    BY <2>1, <1>1
  <2>2. CASE i # 1
    <3>1. i - 1 \in 1 .. Len(Tail(s)) /\ (i - 1) + 1 = i
      BY <2>2, <1>1
    <3> QED
      BY <3>1, <1>1 DEF Fams
  <2> QED
    BY <2>1, <2>2
<1>3. ASSUME NEW i \in 1 .. Len(Tail(s))
      PROVE  Tail(s)[i] \in Fams(s)
  <2>1. i + 1 \in 1 .. Len(s)
    BY <1>1
  <2> QED
    BY <2>1, <1>1 DEF Fams
<1>4. Head(s) \in Fams(s)
  BY <1>1 DEF Fams
<1>5. Fams(s) \subseteq Families
  BY <1>1 DEF Fams
<1>6. Fams(Tail(s)) \subseteq Fams(s)
  BY <1>3, <1>1 DEF Fams
<1>7. Fams(s) \subseteq {Head(s)} \cup Fams(Tail(s))
  BY <1>2, <1>1 DEF Fams
<1> QED
  BY <1>1, <1>4, <1>5, <1>6, <1>7

\* Whose details a call can ask for.
LEMMA ReadsOfCall ==
    ASSUME NEW c \in Calls
    PROVE  /\ Reads(c) = {p \in Principal : \/ c = <<"userGroup", p>>
                                            \/ \E f \in Fams(listsOf(c)) : p \in Entries(f)}
           /\ c[1] = "role" => Reads(c) = Account \cup Group
           /\ c[1] = "site" => Reads(c) = Principal
           /\ c[1] = "userGroup" => Reads(c) = {c[2]}
           /\ c[1] = "list" => Of(c[2]) \subseteq Reads(c)
<1>1. Reads(c) = {p \in Principal : \/ c = <<"userGroup", p>>
                                    \/ \E f \in Fams(listsOf(c)) : p \in Entries(f)}
  BY DEF Reads, Fams
<1>2. c[1] = "role" => Reads(c) = Account \cup Group
  BY <1>1, CallForm, FamsOfCall DEF Entries, Principal
<1>3. c[1] = "site" => Reads(c) = Principal
  BY <1>1, FamsOfCall, EntriesDisjoint
<1>4. c[1] = "userGroup" => Reads(c) = {c[2]}
  BY <1>1, CallForm, FamsOfCall DEF Principal
<1>5. c[1] = "list" => Of(c[2]) \subseteq Reads(c)
  BY <1>1, CallForm, FamsOfCall DEF Entries, Of, Principal
<1> QED
  BY <1>1, <1>2, <1>3, <1>4, <1>5

\* The next entry of a queue is in it.
LEMMA NextInQueue ==
    ASSUME NEW S \in SUBSET Principal, S # {}
    PROVE  Min(S) \in S
<1>1. S \in SUBSET Nat
  BY AccessAssumption
<1> QED
  BY <1>1, MinIsLeast

\* The administrator's actions change Jamf and nothing else.
LEMMA Changes ==
    ASSUME TypeOK, NEW p \in Principal,
           \/ \E d \in Shapes[p] : Edit(p, d) \/ Create(p, d)
           \/ Delete(p)
    PROVE  \E v : Change(v)
<1> USE DEF TypeOK
<1>1. ASSUME NEW d \in Shapes[p], Edit(p, d) \/ Create(p, d)
      PROVE  \E v : Change(v)
  <2>1. d \in Data
    BY AccessAssumption
  <2>2. Change([world EXCEPT ![p] = d])
    BY <1>1, <2>1 DEF Edit, Create, Change
  <2> QED
    BY <2>2
<1>2. ASSUME Delete(p)
      PROVE  \E v : Change(v)
  <2> DEFINE v == [q \in Principal |->
                     IF q = p \/ world[q] = Absent THEN Absent
                     ELSE [world[q] EXCEPT !.users = @ \ {p}]]
  <2>1. ASSUME NEW q \in Principal, world[q] # Absent
        PROVE  [world[q] EXCEPT !.users = @ \ {p}] \in Data
    <3>1. world[q] \in Data
      BY <2>1
    <3> QED
      BY <3>1 DEF Data
  <2>2. v \in [Principal -> Data \cup {Absent}]
    BY <2>1
  <2>3. \A q \in Principal : world[q] = Absent => v[q] = Absent
    OBVIOUS
  <2>4. Become(v)
    BY <1>2 DEF Delete
  <2> HIDE DEF v
  <2>5. Change(v)
    BY <2>2, <2>3, <2>4 DEF Change
  <2> QED
    BY <2>5
<1> QED
  BY <1>1, <1>2

\* A worker makes one step of its call.
LEMMA Steps ==
    ASSUME TypeOK, [Next]_vars
    PROVE  \/ UNCHANGED vars
           \/ \E v : Change(v)
           \/ NextPhase
           \/ \E f \in Families : ListExpires(f)
           \/ \E p \in Principal : Expires(p)
           \/ \E w \in Worker :
                \/ \E c \in Calls : Begin(w, c)
                \/ TakeList(w)
                \/ AskList(w)
                \/ KeepList(w)
                \/ \E p \in Principal : Take(w, p) \/ Ask(w, p) \/ NotFound(w, p)
                \/ Keep(w)
                \/ Return(w)
<1>1. ASSUME NEW p \in Principal,
             \/ \E d \in Shapes[p] : Edit(p, d) \/ Create(p, d)
             \/ Delete(p)
      PROVE  \E v : Change(v)
  BY <1>1, Changes
<1>2. Done => UNCHANGED vars
  BY DEF Done
<1> QED
  BY <1>1, <1>2 DEF Next, WorkerStep

LEMMA TypeInit == Init => TypeInv
<1> SUFFICES ASSUME Init PROVE TypeInv
  OBVIOUS
<1> USE DEF Init
<1>1. world \in [Principal -> Data \cup {Absent}]
  BY AccessAssumption
<1>2. ever \subseteq Calls \X Principal /\ always \subseteq ever
  BY DEF Facts
<1>3. changes \in 0 .. MaxChanges /\ expiries \in 0 .. MaxExpiries
  <2>1. MaxChanges \in Nat /\ MaxExpiries \in Nat
    BY AccessAssumption
  <2> QED
    BY <2>1
<1>4. caching \in BOOLEAN /\ pool \in Pools
  BY AccessAssumption
<1>5. TypeOK
  BY <1>1, <1>2, <1>3, <1>4, EmptySeq DEF TypeOK, Calls, Nothing
<1>6. StageRight
  BY DEF StageRight, Fetched, Nothing
<1> QED
  BY <1>5, <1>6 DEF TypeInv

\* A worker's step leaves what the other workers hold alone.
LEMMA StageStep ==
    ASSUME StageRight, NEW w \in Worker,
           \A v \in Worker \ {w} : /\ call'[v] = call[v]
                                   /\ stage'[v] = stage[v]
                                   /\ lists'[v] = lists[v]
                                   /\ queue'[v] = queue[v]
                                   /\ got'[v] = got[v],
           /\ stage'[w] = "idle" =>
                 /\ call'[w] = NoCall
                 /\ lists'[w] = <<>>
                 /\ queue'[w] = {}
                 /\ Fetched(w)' = {}
           /\ stage'[w] # "idle" => call'[w] \in Calls
           /\ stage'[w] = "keepList" => lists'[w] # <<>>
           /\ stage'[w] = "keep" => queue'[w] # {} /\ Min(queue'[w]) \in Fetched(w)'
    PROVE  StageRight'
<1> SUFFICES ASSUME NEW v \in Worker
             PROVE  /\ stage'[v] = "idle" =>
                          /\ call'[v] = NoCall
                          /\ lists'[v] = <<>>
                          /\ queue'[v] = {}
                          /\ Fetched(v)' = {}
                    /\ stage'[v] # "idle" => call'[v] \in Calls
                    /\ stage'[v] = "keepList" => lists'[v] # <<>>
                    /\ stage'[v] = "keep" => queue'[v] # {} /\ Min(queue'[v]) \in Fetched(v)'
  BY DEF StageRight
<1>1. CASE v = w
  BY <1>1
<1>2. CASE v # w
  <2>1. Fetched(v)' = Fetched(v)
    BY <1>2 DEF Fetched
  <2> QED
    BY <1>2, <2>1 DEF StageRight
<1> QED
  BY <1>1, <1>2

\* The end of a call.
LEMMA EndTyped ==
    ASSUME TypeInv, NEW w \in Worker, End(w)
    PROVE  /\ call' \in [Worker -> Calls \cup {NoCall}]
           /\ stage' \in [Worker -> {"idle", "ask", "keepList", "keep"}]
           /\ lists' \in [Worker -> Seq(Families)]
           /\ queue' \in [Worker -> SUBSET Principal]
           /\ got' \in [Worker -> [Principal -> Data \cup {Absent}]]
           /\ StageRight'
           /\ UNCHANGED <<jamf, http, pool, phase, todo>>
<1> USE DEF TypeInv, TypeOK, End
<1>1. /\ call' \in [Worker -> Calls \cup {NoCall}]
      /\ stage' \in [Worker -> {"idle", "ask", "keepList", "keep"}]
      /\ queue' \in [Worker -> SUBSET Principal]
  OBVIOUS
<1>2. <<>> \in Seq(Families)
  OBVIOUS
<1>3. lists' \in [Worker -> Seq(Families)]
  BY <1>2
<1>4. Nothing \in [Principal -> Data \cup {Absent}] /\ \A p \in Principal : Nothing[p] = Absent
  BY DEF Nothing
<1>5. got' \in [Worker -> [Principal -> Data \cup {Absent}]] /\ got'[w] = Nothing
  BY <1>4
<1>6. Fetched(w)' = {}
  BY <1>4, <1>5 DEF Fetched
<1>7. StageRight'
  BY <1>6, StageStep
<1> QED
  BY <1>1, <1>3, <1>5, <1>7

LEMMA TypeStep == TypeInv /\ [Next]_vars => TypeInv'
<1> SUFFICES ASSUME TypeInv, [Next]_vars
             PROVE  TypeInv'
  OBVIOUS
<1> USE DEF TypeInv
<1>1. CASE UNCHANGED vars
  BY <1>1 DEF vars, jamf, http, sync, locals, TypeOK, StageRight, Fetched
<1>2. ASSUME NEW v, Change(v)
      PROVE  TypeInv'
  <2>1. changes' \in 0 .. MaxChanges
    <3>1. MaxChanges \in Nat
      BY AccessAssumption
    <3> QED
      BY <1>2, <3>1 DEF Change, Become, TypeOK
  <2>2. ever' \subseteq Calls \X Principal /\ always' \subseteq ever'
    BY <1>2 DEF Change, Become, Facts, TypeOK
  <2>3. world' \in [Principal -> Data \cup {Absent}] /\ existed' \subseteq Principal
    BY <1>2 DEF Change, Become, TypeOK
  <2>4. UNCHANGED <<http, sync, locals>>
    BY <1>2 DEF Change, Become
  <2>5. TypeOK'
    BY <2>1, <2>2, <2>3, <2>4 DEF TypeOK, http, sync, locals
  <2>6. StageRight'
    BY <2>4 DEF StageRight, locals, Fetched
  <2> QED
    BY <2>5, <2>6
<1>3. CASE NextPhase
  <2>1. todo' \subseteq Calls
    BY <1>3, AccessAssumption DEF NextPhase, Calls
  <2>2. phase' \in {"list", "grants", "done"}
    BY <1>3 DEF NextPhase
  <2>3. TypeOK'
    BY <1>3, <2>1, <2>2 DEF NextPhase, TypeOK, jamf, http, locals
  <2>4. StageRight'
    BY <1>3 DEF NextPhase, locals, StageRight, Fetched
  <2> QED
    BY <2>3, <2>4
<1>4. ASSUME NEW f \in Families, ListExpires(f)
      PROVE  TypeInv'
  <2>1. expiries' \in 0 .. MaxExpiries
    <3>1. MaxExpiries \in Nat
      BY AccessAssumption
    <3> QED
      BY <1>4, <3>1 DEF ListExpires, TypeOK
  <2>2. TypeOK'
    BY <1>4, <2>1 DEF ListExpires, TypeOK, jamf, sync, locals
  <2>3. StageRight'
    BY <1>4 DEF ListExpires, locals, StageRight, Fetched
  <2> QED
    BY <2>2, <2>3
<1>5. ASSUME NEW p \in Principal, Expires(p)
      PROVE  TypeInv'
  <2>1. expiries' \in 0 .. MaxExpiries
    <3>1. MaxExpiries \in Nat
      BY AccessAssumption
    <3> QED
      BY <1>5, <3>1 DEF Expires, TypeOK
  <2>2. TypeOK'
    BY <1>5, <2>1 DEF Expires, TypeOK, jamf, sync, locals
  <2>3. StageRight'
    BY <1>5 DEF Expires, locals, StageRight, Fetched
  <2> QED
    BY <2>2, <2>3
<1>6. ASSUME NEW w \in Worker, NEW c \in Calls, Begin(w, c)
      PROVE  TypeInv'
  <2>1. listsOf(c) \in Seq(Families)
    BY FamsOfCall
  <2>2. (IF c[1] = "userGroup" THEN {c[2]} ELSE {}) \in SUBSET Principal
    BY CallForm DEF Principal
  <2>3. lists' \in [Worker -> Seq(Families)] /\ queue' \in [Worker -> SUBSET Principal]
    BY <1>6, <2>1, <2>2 DEF Begin, TypeOK
  <2>4. TypeOK'
    BY <1>6, <2>3 DEF Begin, TypeOK, jamf, http
  <2>5. StageRight'
    BY <1>6, StageStep DEF Begin, TypeOK
  <2> QED
    BY <2>4, <2>5
<1>7. ASSUME NEW w \in Worker, TakeList(w)
      PROVE  TypeInv'
  <2>1. Head(lists[w]) \in Families
    BY <1>7, FamsHeadTail DEF TakeList, wantsList, TypeOK
  <2>2. listCache[Head(lists[w])] \in SUBSET Principal
    BY <1>7, <2>1 DEF TakeList, TypeOK
  <2>3. queue' \in [Worker -> SUBSET Principal]
    BY <1>7, <2>2 DEF TakeList, TypeOK
  <2>4. TypeOK'
    BY <1>7, <2>3 DEF TakeList, TypeOK, jamf, http, sync
  <2>5. call[w] \in Calls
    BY <1>7 DEF TakeList, wantsList, StageRight
  <2>6. StageRight'
    BY <1>7, <2>5, StageStep DEF TakeList, wantsList, TypeOK
  <2> QED
    BY <2>4, <2>6
<1>8. ASSUME NEW w \in Worker, AskList(w)
      PROVE  TypeInv'
  <2>1. Head(lists[w]) \in Families
    BY <1>8, FamsHeadTail DEF AskList, wantsList, TypeOK
  <2>2. baseList(world, Head(lists[w])) \in SUBSET Principal
    BY <2>1, EntriesDisjoint DEF baseList
  <2>3. queue' \in [Worker -> SUBSET Principal]
    BY <1>8, <2>2 DEF AskList, TypeOK
  <2>4. TypeOK'
    BY <1>8, <2>3 DEF AskList, TypeOK, jamf, http, sync
  <2>5. call[w] \in Calls
    BY <1>8 DEF AskList, wantsList, StageRight
  <2>6. StageRight'
    BY <1>8, <2>5, StageStep DEF AskList, wantsList, TypeOK
  <2> QED
    BY <2>4, <2>6
<1>9. ASSUME NEW w \in Worker, KeepList(w)
      PROVE  TypeInv'
  <2>1. lists[w] # <<>> /\ call[w] \in Calls
    BY <1>9 DEF KeepList, StageRight
  <2>2. Head(lists[w]) \in Families /\ Tail(lists[w]) \in Seq(Families)
    BY <2>1, FamsHeadTail DEF TypeOK
  <2>3. lists' \in [Worker -> Seq(Families)]
    BY <1>9, <2>2 DEF KeepList, TypeOK
  <2>4. listCache' \in [Families -> (SUBSET Principal) \cup {NoList}]
    BY <1>9, <2>2 DEF KeepList, TypeOK
  <2>5. TypeOK'
    BY <1>9, <2>3, <2>4 DEF KeepList, TypeOK, jamf, sync
  <2>6. StageRight'
    BY <1>9, <2>1, StageStep DEF KeepList, TypeOK
  <2> QED
    BY <2>5, <2>6
<1>10. ASSUME NEW w \in Worker, NEW p \in Principal, Take(w, p)
       PROVE  TypeInv'
  <2>1. cache[p] \in Data
    BY <1>10 DEF Take, TypeOK
  <2>2. got' \in [Worker -> [Principal -> Data \cup {Absent}]]
    BY <1>10, <2>1 DEF Take, TypeOK
  <2>3. TypeOK'
    BY <1>10, <2>2 DEF Take, TypeOK, jamf, http, sync
  <2>4. call[w] \in Calls /\ queue[w] # {} /\ Min(queue[w]) = p
    BY <1>10 DEF Take, wants, StageRight
  <2>5. p \in Fetched(w)'
    BY <1>10, <2>1, AccessAssumption DEF Take, Fetched, TypeOK
  <2>6. StageRight'
    BY <1>10, <2>4, <2>5, StageStep DEF Take, TypeOK
  <2> QED
    BY <2>3, <2>6
<1>11. ASSUME NEW w \in Worker, NEW p \in Principal, Ask(w, p)
       PROVE  TypeInv'
  <2>1. got' \in [Worker -> [Principal -> Data \cup {Absent}]]
    BY <1>11 DEF Ask, TypeOK
  <2>2. TypeOK'
    BY <1>11, <2>1 DEF Ask, TypeOK, jamf, http, sync
  <2>3. call[w] \in Calls /\ queue[w] # {} /\ Min(queue[w]) = p
    BY <1>11 DEF Ask, wants, StageRight
  <2>4. p \in Fetched(w)'
    BY <1>11 DEF Ask, Fetched, TypeOK
  <2>5. StageRight'
    BY <1>11, <2>3, <2>4, StageStep DEF Ask, TypeOK
  <2> QED
    BY <2>2, <2>5
<1>12. ASSUME NEW w \in Worker, NEW p \in Principal, NotFound(w, p)
       PROVE  TypeInv'
  <2>1. call[w] \in Calls
    BY <1>12 DEF NotFound, wants, StageRight
  <2>2. TypeOK'
    BY <1>12, <2>1, EndTyped DEF NotFound, TypeOK, jamf, http
  <2> QED
    BY <1>12, <2>2, EndTyped DEF NotFound
<1>13. ASSUME NEW w \in Worker, Keep(w)
       PROVE  TypeInv'
  <2>1. /\ call[w] \in Calls
        /\ queue[w] \in SUBSET Principal /\ queue[w] # {}
        /\ Min(queue[w]) \in Fetched(w)
    BY <1>13 DEF Keep, StageRight, TypeOK
  <2>2. Min(queue[w]) \in Principal /\ got[w][Min(queue[w])] \in Data
    BY <2>1 DEF Fetched, TypeOK
  <2>3. cache' \in [Principal -> Data \cup {NotCached}]
    BY <1>13, <2>2 DEF Keep, TypeOK
  <2>4. TypeOK'
    BY <1>13, <2>3 DEF Keep, TypeOK, jamf, sync
  <2>5. StageRight'
    BY <1>13, <2>1, StageStep DEF Keep, TypeOK
  <2> QED
    BY <2>4, <2>5
<1>14. ASSUME NEW w \in Worker, Return(w)
       PROVE  TypeInv'
  <2>1. call[w] \in Calls
    BY <1>14 DEF Return, StageRight
  <2>2. results' \subseteq Calls \X Principal
    BY <1>14, <2>1 DEF Return, returned, TypeOK
  <2>3. TypeOK'
    BY <1>14, <2>1, <2>2, EndTyped DEF Return, TypeOK, jamf, http
  <2> QED
    BY <1>14, <2>3, EndTyped DEF Return
<1> QED
  BY <1>1, <1>2, <1>3, <1>4, <1>5, <1>6, <1>7, <1>8, <1>9, <1>10, <1>11, <1>12, <1>13, <1>14, Steps

\* Type correctness: every variable of the model stays within its type.
THEOREM AccessTypeCorrect == Spec => []TypeOK
<1>1. Spec => []TypeInv
  BY TypeInit, TypeStep, PTL DEF Spec
<1>2. TypeInv => TypeOK
  BY DEF TypeInv
<1> QED
  BY <1>1, <1>2, PTL

-----------------------------------------------------------------------------
(* What the steps of a call do to the one worker that makes them.          *)

LEMMA BeginDoes ==
    ASSUME TypeInv, NEW w \in Worker, NEW c \in Calls, Begin(w, c)
    PROVE  /\ Others(w)
           /\ w \in pool /\ c \in todo /\ stage[w] = "idle"
           /\ todo' = todo \ {c}
           /\ call'[w] = c /\ stage'[w] = "ask" /\ lists'[w] = listsOf(c)
           /\ c[1] = "userGroup" => queue'[w] = {c[2]}
           /\ c[1] # "userGroup" => queue'[w] = {}
           /\ Fetched(w)' = {} /\ got' = got
           /\ UNCHANGED <<jamf, http, pool, phase, results, completed, skipped>>
<1>1. Fetched(w)' = Fetched(w)
  BY DEF Begin, Fetched
<1>2. Fetched(w) = {}
  BY DEF Begin, TypeInv, StageRight
<1> QED
  BY <1>1, <1>2 DEF Begin, TypeInv, TypeOK, Others, Fetched

LEMMA TakeListDoes ==
    ASSUME TypeInv, NEW w \in Worker, TakeList(w)
    PROVE  /\ Others(w)
           /\ call[w] \in Calls /\ stage[w] = "ask" /\ queue[w] = {} /\ lists[w] # <<>>
           /\ Head(lists[w]) \in Families
           /\ Fams(lists[w]) = {Head(lists[w])} \cup Fams(Tail(lists[w]))
           /\ listCache[Head(lists[w])] # NoList
           /\ call'[w] = call[w] /\ stage'[w] = "keepList" /\ lists'[w] = lists[w]
           /\ queue'[w] = listCache[Head(lists[w])]
           /\ Fetched(w)' = Fetched(w) /\ got' = got
           /\ UNCHANGED <<jamf, http, sync>>
<1>1. call[w] \in Calls /\ stage[w] = "ask" /\ queue[w] = {} /\ lists[w] # <<>>
  BY DEF TakeList, wantsList, TypeInv, StageRight
<1>2. /\ Head(lists[w]) \in Families
      /\ Fams(lists[w]) = {Head(lists[w])} \cup Fams(Tail(lists[w]))
  BY <1>1, FamsHeadTail DEF TypeInv, TypeOK
<1>3. got' = got /\ Fetched(w)' = Fetched(w)
  BY DEF TakeList, Fetched
<1> QED
  BY <1>1, <1>2, <1>3 DEF TakeList, TypeInv, TypeOK, Others, Fetched

LEMMA AskListDoes ==
    ASSUME TypeInv, NEW w \in Worker, AskList(w)
    PROVE  /\ Others(w)
           /\ call[w] \in Calls /\ stage[w] = "ask" /\ queue[w] = {} /\ lists[w] # <<>>
           /\ Head(lists[w]) \in Families
           /\ Fams(lists[w]) = {Head(lists[w])} \cup Fams(Tail(lists[w]))
           /\ listCache[Head(lists[w])] = NoList
           /\ call'[w] = call[w] /\ stage'[w] = "keepList" /\ lists'[w] = lists[w]
           /\ queue'[w] = baseList(world, Head(lists[w]))
           /\ Fetched(w)' = Fetched(w) /\ got' = got
           /\ UNCHANGED <<jamf, http, sync>>
<1>1. call[w] \in Calls /\ stage[w] = "ask" /\ queue[w] = {} /\ lists[w] # <<>>
  BY DEF AskList, wantsList, TypeInv, StageRight
<1>2. /\ Head(lists[w]) \in Families
      /\ Fams(lists[w]) = {Head(lists[w])} \cup Fams(Tail(lists[w]))
  BY <1>1, FamsHeadTail DEF TypeInv, TypeOK
<1>3. got' = got /\ Fetched(w)' = Fetched(w)
  BY DEF AskList, Fetched
<1> QED
  BY <1>1, <1>2, <1>3 DEF AskList, TypeInv, TypeOK, Others, Fetched

LEMMA KeepListDoes ==
    ASSUME TypeInv, NEW w \in Worker, KeepList(w)
    PROVE  /\ Others(w)
           /\ call[w] \in Calls /\ stage[w] = "keepList" /\ lists[w] # <<>>
           /\ Head(lists[w]) \in Families
           /\ Fams(lists[w]) = {Head(lists[w])} \cup Fams(Tail(lists[w]))
           /\ call'[w] = call[w] /\ stage'[w] = "ask" /\ lists'[w] = Tail(lists[w])
           /\ queue'[w] = queue[w] /\ queue[w] \subseteq Principal /\ queue[w] # NoList
           /\ Fetched(w)' = Fetched(w) /\ got' = got
           /\ caching => listCache'[Head(lists[w])] = queue[w]
           /\ ~caching => listCache' = listCache
           /\ \A f \in Families \ {Head(lists[w])} : listCache'[f] = listCache[f]
           /\ UNCHANGED <<jamf, caching, cache, expiries, sync>>
<1>1. call[w] \in Calls /\ stage[w] = "keepList" /\ lists[w] # <<>>
  BY DEF KeepList, TypeInv, StageRight
<1>2. /\ Head(lists[w]) \in Families
      /\ Fams(lists[w]) = {Head(lists[w])} \cup Fams(Tail(lists[w]))
  BY <1>1, FamsHeadTail DEF TypeInv, TypeOK
<1>3. got' = got /\ Fetched(w)' = Fetched(w)
  BY DEF KeepList, Fetched
<1>4. queue[w] \subseteq Principal /\ queue[w] # NoList
  BY EntriesDisjoint DEF TypeInv, TypeOK, NoList
<1>5. Others(w)
  BY DEF KeepList, TypeInv, TypeOK, Others, Fetched
<1> QED
  BY <1>1, <1>2, <1>3, <1>4, <1>5 DEF KeepList, TypeInv, TypeOK

LEMMA TakeDoes ==
    ASSUME TypeInv, NEW w \in Worker, NEW p \in Principal, Take(w, p)
    PROVE  /\ Others(w)
           /\ call[w] \in Calls /\ stage[w] = "ask" /\ p \in queue[w] /\ p = Min(queue[w])
           /\ cache[p] # NotCached /\ cache[p] \in Data
           /\ call'[w] = call[w] /\ stage'[w] = "keep" /\ lists'[w] = lists[w]
           /\ queue' = queue
           /\ Fetched(w)' = Fetched(w) \cup {p}
           /\ got'[w][p] = cache[p]
           /\ \A q \in Principal \ {p} : got'[w][q] = got[w][q]
           /\ UNCHANGED <<jamf, http, sync>>
<1>1. call[w] \in Calls /\ stage[w] = "ask" /\ queue[w] # {} /\ p = Min(queue[w])
  BY DEF Take, wants, TypeInv, StageRight
<1>2. p \in queue[w]
  BY <1>1, NextInQueue DEF TypeInv, TypeOK
<1>3. /\ got'[w][p] = cache[p]
      /\ \A q \in Principal \ {p} : got'[w][q] = got[w][q]
  BY DEF Take, TypeInv, TypeOK
<1>4. cache[p] # NotCached /\ cache[p] \in Data
  BY DEF Take, TypeInv, TypeOK
<1>5. Fetched(w)' = Fetched(w) \cup {p}
  BY <1>3, <1>4, AccessAssumption DEF Fetched
<1> QED
  BY <1>1, <1>2, <1>3, <1>4, <1>5 DEF Take, TypeInv, TypeOK, Others, Fetched

LEMMA AskDoes ==
    ASSUME TypeInv, NEW w \in Worker, NEW p \in Principal, Ask(w, p)
    PROVE  /\ Others(w)
           /\ call[w] \in Calls /\ stage[w] = "ask" /\ p \in queue[w] /\ p = Min(queue[w])
           /\ cache[p] = NotCached /\ world[p] # Absent /\ world[p] \in Data
           /\ call'[w] = call[w] /\ stage'[w] = "keep" /\ lists'[w] = lists[w]
           /\ queue' = queue
           /\ Fetched(w)' = Fetched(w) \cup {p}
           /\ got'[w][p] = world[p]
           /\ \A q \in Principal \ {p} : got'[w][q] = got[w][q]
           /\ UNCHANGED <<jamf, http, sync>>
<1>1. call[w] \in Calls /\ stage[w] = "ask" /\ queue[w] # {} /\ p = Min(queue[w])
  BY DEF Ask, wants, TypeInv, StageRight
<1>2. p \in queue[w]
  BY <1>1, NextInQueue DEF TypeInv, TypeOK
<1>3. /\ got'[w][p] = world[p]
      /\ \A q \in Principal \ {p} : got'[w][q] = got[w][q]
  BY DEF Ask, TypeInv, TypeOK
<1>4. world[p] # Absent /\ world[p] \in Data
  BY DEF Ask, TypeInv, TypeOK
<1>5. Fetched(w)' = Fetched(w) \cup {p}
  BY <1>3, <1>4 DEF Fetched
<1> QED
  BY <1>1, <1>2, <1>3, <1>4, <1>5 DEF Ask, TypeInv, TypeOK, Others, Fetched

LEMMA KeepDoes ==
    ASSUME TypeInv, NEW w \in Worker, Keep(w)
    PROVE  /\ Others(w)
           /\ call[w] \in Calls /\ stage[w] = "keep"
           /\ Min(queue[w]) \in queue[w] /\ Min(queue[w]) \in Fetched(w)
           /\ Min(queue[w]) \in Principal /\ got[w][Min(queue[w])] \in Data
           /\ call'[w] = call[w] /\ stage'[w] = "ask" /\ lists'[w] = lists[w]
           /\ queue'[w] = queue[w] \ {Min(queue[w])}
           /\ Fetched(w)' = Fetched(w) /\ got' = got
           /\ caching => cache'[Min(queue[w])] = got[w][Min(queue[w])]
           /\ ~caching => cache' = cache
           /\ \A q \in Principal \ {Min(queue[w])} : cache'[q] = cache[q]
           /\ UNCHANGED <<jamf, caching, listCache, expiries, sync>>
<1>1. /\ call[w] \in Calls /\ stage[w] = "keep"
      /\ queue[w] # {} /\ Min(queue[w]) \in Fetched(w)
  BY DEF Keep, TypeInv, StageRight
<1>2. Min(queue[w]) \in queue[w] /\ Min(queue[w]) \in Principal
  BY <1>1, NextInQueue DEF TypeInv, TypeOK
<1>3. got[w][Min(queue[w])] \in Data
  BY <1>1, <1>2 DEF Fetched, TypeInv, TypeOK
<1>4. got' = got /\ Fetched(w)' = Fetched(w)
  BY DEF Keep, Fetched
<1>5. Others(w)
  BY DEF Keep, TypeInv, TypeOK, Others, Fetched
<1> QED
  BY <1>1, <1>2, <1>3, <1>4, <1>5 DEF Keep, TypeInv, TypeOK

LEMMA EndDoes ==
    ASSUME TypeInv, NEW w \in Worker, End(w)
    PROVE  /\ Others(w)
           /\ call'[w] = NoCall /\ stage'[w] = "idle" /\ lists'[w] = <<>> /\ queue'[w] = {}
           /\ Fetched(w)' = {}
           /\ UNCHANGED <<jamf, http, pool, phase, todo>>
<1>1. got'[w] = Nothing /\ \A p \in Principal : Nothing[p] = Absent
  BY DEF End, TypeInv, TypeOK, Nothing
<1>2. Fetched(w)' = {}
  BY <1>1 DEF Fetched
<1> QED
  BY <1>2 DEF End, TypeInv, TypeOK, Others, Fetched

LEMMA NotFoundDoes ==
    ASSUME TypeInv, NEW w \in Worker, NEW p \in Principal, NotFound(w, p)
    PROVE  /\ End(w)
           /\ call[w] \in Calls /\ stage[w] = "ask" /\ p \in queue[w]
           /\ cache[p] = NotCached /\ world[p] = Absent
           /\ skipped' = skipped \cup {call[w]}
           /\ UNCHANGED <<results, completed>>
<1>1. call[w] \in Calls /\ stage[w] = "ask" /\ queue[w] # {} /\ p = Min(queue[w])
  BY DEF NotFound, wants, TypeInv, StageRight
<1>2. p \in queue[w]
  BY <1>1, NextInQueue DEF TypeInv, TypeOK
<1> QED
  BY <1>1, <1>2 DEF NotFound

LEMMA ReturnDoes ==
    ASSUME TypeInv, NEW w \in Worker, Return(w)
    PROVE  /\ End(w)
           /\ call[w] \in Calls /\ stage[w] = "ask" /\ queue[w] = {} /\ lists[w] = <<>>
           /\ completed' = completed \cup {call[w]} /\ skipped' = skipped
           /\ results \subseteq results'
           /\ \A p \in Fetched(w) : \A q \in returned(call[w], p, got[w][p]) :
                 <<call[w], q>> \in results'
           /\ \A r \in results' \ results :
                 /\ r = <<call[w], r[2]>>
                 /\ \E p \in Fetched(w) : r[2] \in returned(call[w], p, got[w][p])
<1>1. call[w] \in Calls
  BY DEF Return, TypeInv, StageRight
<1> QED
  BY <1>1 DEF Return, Fetched

\* A step of Jamf, of the syncer or of the cache leaves what workers hold alone.
LEMMA LocalsKept ==
    ASSUME UNCHANGED locals, NEW w \in Worker
    PROVE  Fetched(w)' = Fetched(w)
  BY DEF locals, Fetched

-----------------------------------------------------------------------------
(* A call keeps to what it is about.                                       *)

LEMMA ReadsInit == Init => ReadsInv
  BY DEF Init, ReadsInv, ListsKept

LEMMA ReadsOfWorker ==
    ASSUME NEW w \in Worker, Others(w),
           \A v \in Worker : stage[v] # "idle" => KeepsToCall(v),
           stage'[w] # "idle" => KeepsToCall(w)'
    PROVE  \A v \in Worker : stage'[v] # "idle" => KeepsToCall(v)'
<1> SUFFICES ASSUME NEW v \in Worker, stage'[v] # "idle", v # w
             PROVE  KeepsToCall(v)'
  OBVIOUS
<1> QED
  BY DEF Others, KeepsToCall

LEMMA ReadsStep == TypeInv /\ ReadsInv /\ [Next]_vars => ReadsInv'
<1> SUFFICES ASSUME TypeInv, ReadsInv, [Next]_vars
             PROVE  ReadsInv'
  OBVIOUS
<1> USE DEF ReadsInv
<1>1. ASSUME UNCHANGED <<locals, listCache>>
      PROVE  ReadsInv'
  BY <1>1, LocalsKept DEF locals, KeepsToCall, ListsKept
<1>2. ASSUME UNCHANGED vars \/ (\E v : Change(v)) \/ NextPhase \/ \E p \in Principal : Expires(p)
      PROVE  ReadsInv'
  <2>1. UNCHANGED <<locals, listCache>>
    BY <1>2 DEF vars, http, Change, Become, NextPhase, Expires
  <2> QED
    BY <1>1, <2>1
<1>3. ASSUME NEW f \in Families, ListExpires(f)
      PROVE  ReadsInv'
  BY <1>3, LocalsKept DEF ListExpires, TypeInv, TypeOK, locals, KeepsToCall, ListsKept
<1>4. ASSUME NEW w \in Worker, NEW c \in Calls, Begin(w, c)
      PROVE  ReadsInv'
  <2>1. c[1] = "userGroup" => {c[2]} = Reads(c)
    BY ReadsOfCall
  <2>2. KeepsToCall(w)'
    <3>0. /\ call'[w] = c /\ stage'[w] = "ask" /\ lists'[w] = listsOf(c)
          /\ c[1] = "userGroup" => queue'[w] = {c[2]}
          /\ c[1] # "userGroup" => queue'[w] = {}
          /\ Fetched(w)' = {}
      BY <1>4, BeginDoes
    <3>1. /\ Fams(lists'[w]) \subseteq Fams(listsOf(call'[w]))
          /\ queue'[w] \subseteq Reads(call'[w])
          /\ Fetched(w)' \subseteq Reads(call'[w])
          /\ stage'[w] # "keepList"
      BY <2>1, <3>0
    <3>2. ASSUME c \in Lists
          PROVE  queue'[w] = {} /\ Tail(lists'[w]) = <<>>
      <4>1. c[1] = "list" /\ c[2] \in {"user", "userGroup", "userAccount", "group"}
        BY <3>2 DEF Lists
      <4>2. \E f \in Families : listsOf(c) = <<f>>
        BY <4>1, ListsOfCall DEF Families
      <4>3. \A f : Tail(<<f>>) = <<>>
        OBVIOUS
      <4> QED
        BY <3>0, <4>1, <4>2, <4>3
    <3> QED
      BY <3>0, <3>1, <3>2 DEF KeepsToCall
  <2>3. \A v \in Worker : stage'[v] # "idle" => KeepsToCall(v)'
    BY <1>4, <2>2, BeginDoes, ReadsOfWorker
  <2> QED
    BY <1>4, <2>3 DEF Begin, http, ListsKept
<1>5. ASSUME NEW w \in Worker, TakeList(w)
      PROVE  ReadsInv'
  <2>1. KeepsToCall(w)
    BY <1>5, TakeListDoes
  <2>2. queue'[w] \subseteq Entries(Head(lists[w]))
    BY <1>5, TakeListDoes DEF ListsKept
  <2>3. queue'[w] \subseteq Reads(call[w])
    BY <1>5, <2>1, <2>2, TakeListDoes, ReadsOfCall, EntriesDisjoint DEF KeepsToCall
  <2>4. KeepsToCall(w)'
    BY <1>5, <2>1, <2>2, <2>3, TakeListDoes DEF KeepsToCall
  <2>5. \A v \in Worker : stage'[v] # "idle" => KeepsToCall(v)'
    BY <1>5, <2>4, TakeListDoes, ReadsOfWorker
  <2> QED
    BY <1>5, <2>5 DEF TakeList, http, ListsKept
<1>6. ASSUME NEW w \in Worker, AskList(w)
      PROVE  ReadsInv'
  <2>1. KeepsToCall(w)
    BY <1>6, AskListDoes
  <2>2. /\ queue'[w] \subseteq Entries(Head(lists[w]))
        /\ queue'[w] \subseteq Reads(call[w])
    BY <1>6, <2>1, AskListDoes, ReadsOfCall, EntriesDisjoint DEF baseList, KeepsToCall
  <2>3. KeepsToCall(w)'
    BY <1>6, <2>1, <2>2, AskListDoes DEF KeepsToCall
  <2>4. \A v \in Worker : stage'[v] # "idle" => KeepsToCall(v)'
    BY <1>6, <2>3, AskListDoes, ReadsOfWorker
  <2> QED
    BY <1>6, <2>4 DEF AskList, http, ListsKept
<1>7. ASSUME NEW w \in Worker, KeepList(w)
      PROVE  ReadsInv'
  <2>1. KeepsToCall(w)
    BY <1>7, KeepListDoes
  <2>2. KeepsToCall(w)'
    BY <1>7, <2>1, KeepListDoes DEF KeepsToCall
  <2>3. \A v \in Worker : stage'[v] # "idle" => KeepsToCall(v)'
    BY <1>7, <2>2, KeepListDoes, ReadsOfWorker
  <2>4. queue[w] \subseteq Entries(Head(lists[w]))
    BY <1>7, <2>1, KeepListDoes DEF KeepsToCall
  <2>5. ListsKept'
    BY <1>7, <2>4, KeepListDoes DEF ListsKept
  <2> QED
    BY <2>3, <2>5
<1>8. ASSUME NEW w \in Worker, NEW p \in Principal, Take(w, p)
      PROVE  ReadsInv'
  <2>1. KeepsToCall(w)
    BY <1>8, TakeDoes
  <2>2. KeepsToCall(w)'
    BY <1>8, <2>1, TakeDoes DEF KeepsToCall
  <2>3. \A v \in Worker : stage'[v] # "idle" => KeepsToCall(v)'
    BY <1>8, <2>2, TakeDoes, ReadsOfWorker
  <2> QED
    BY <1>8, <2>3 DEF Take, http, ListsKept
<1>9. ASSUME NEW w \in Worker, NEW p \in Principal, Ask(w, p)
      PROVE  ReadsInv'
  <2>1. KeepsToCall(w)
    BY <1>9, AskDoes
  <2>2. KeepsToCall(w)'
    BY <1>9, <2>1, AskDoes DEF KeepsToCall
  <2>3. \A v \in Worker : stage'[v] # "idle" => KeepsToCall(v)'
    BY <1>9, <2>2, AskDoes, ReadsOfWorker
  <2> QED
    BY <1>9, <2>3 DEF Ask, http, ListsKept
<1>10. ASSUME NEW w \in Worker, Keep(w)
       PROVE  ReadsInv'
  <2>1. KeepsToCall(w)
    BY <1>10, KeepDoes
  <2>2. KeepsToCall(w)'
    BY <1>10, <2>1, KeepDoes DEF KeepsToCall
  <2>3. \A v \in Worker : stage'[v] # "idle" => KeepsToCall(v)'
    BY <1>10, <2>2, KeepDoes, ReadsOfWorker
  <2> QED
    BY <1>10, <2>3 DEF Keep, ListsKept
<1>11. ASSUME NEW w \in Worker, End(w)
       PROVE  ReadsInv'
  <2>1. \A v \in Worker : stage'[v] # "idle" => KeepsToCall(v)'
    BY <1>11, EndDoes, ReadsOfWorker
  <2> QED
    BY <1>11, <2>1, EndDoes DEF http, ListsKept
<1>12. ASSUME NEW w \in Worker, Return(w) \/ \E p \in Principal : NotFound(w, p)
       PROVE  ReadsInv'
  BY <1>11, <1>12 DEF Return, NotFound
<1> QED
  BY <1>2, <1>3, <1>4, <1>5, <1>6, <1>7, <1>8, <1>9, <1>10, <1>12, Steps DEF TypeInv

-----------------------------------------------------------------------------
(* What the connector makes of details is what they mean.                  *)

\* role.Grants grants a role for details d exactly if d gives it: an account
\* has its set, and the privileges beside it only if that set is Custom.
LEMMA RoleGrantedIsAccess ==
    ASSUME NEW r \in Roles, NEW d \in Data
    PROVE  roleGranted(r, d) <=> r \in access(d)
<1>1. /\ d.privilegeSet \in privilegeSets \cup {"Custom", ""}
      /\ d.privileges \in [Category -> SUBSET Privilege]
  BY DEF Data
<1>2. /\ r \in privilegeSets \/ r \in Privilege
      /\ r \in privilegeSets => r \notin Privilege
      /\ r # "Custom"
      /\ r \in Privilege => r # d.privilegeSet
  BY <1>1, AccessAssumption DEF Roles, privilegeSets
<1>3. Contains(d.privileges, r) <=> r \in UNION {d.privileges[k] : k \in Category}
  BY DEF Contains
<1>4. Contains(d.privileges, r) => r \in Privilege
  BY <1>1 DEF Contains
<1>5. CASE d.privilegeSet = "Custom"
  BY <1>2, <1>3, <1>4, <1>5 DEF roleGranted, access, matchesIndividualPrivilege
<1>6. CASE d.privilegeSet # "Custom"
  BY <1>6 DEF roleGranted, access, matchesIndividualPrivilege
<1> QED
  BY <1>5, <1>6

\* A built-in set, if granted, is the one role that the details give.
LEMMA SetIsAlone ==
    ASSUME NEW d \in Data, NEW s \in privilegeSets, s \in access(d)
    PROVE  access(d) = {s}
<1>1. d.privileges \in [Category -> SUBSET Privilege]
  BY DEF Data
<1>2. s \notin Privilege
  BY AccessAssumption
<1>3. d.privilegeSet # "Custom"
  BY <1>1, <1>2 DEF access
<1> QED
  BY <1>3 DEF access

\* A fact is about someone who exists and whom the call reads.
LEMMA FactsPresent ==
    ASSUME NEW v, NEW f \in Facts(v)
    PROVE  /\ f \in Calls \X Principal
           /\ subject(f) \in Principal
           /\ v[subject(f)] # Absent
           /\ subject(f) \in Reads(f[1])
<1>1. f \in Calls \X Principal /\ Holds(v, f[1], f[2])
  BY DEF Facts
<1>2. f[1] \in Calls /\ f[2] \in Principal
  BY <1>1
<1>3. CASE f[1][1] = "userGroup"
  BY <1>1, <1>2, <1>3, CallForm, ReadsOfCall DEF Holds, subject, Principal
<1>4. CASE f[1][1] = "list"
  BY <1>1, <1>2, <1>4, ReadsOfCall DEF Holds, subject
<1>5. CASE f[1][1] = "role"
  BY <1>1, <1>2, <1>5, ReadsOfCall DEF Holds, subject
<1>6. CASE f[1][1] = "site"
  BY <1>1, <1>2, <1>6, ReadsOfCall DEF Holds, subject
<1> QED
  BY <1>1, <1>2, <1>3, <1>4, <1>5, <1>6, CallForm

\* The calls that read p make of its details what holds about it.
LEMMA GivesFacts ==
    ASSUME NEW v \in [Principal -> Data \cup {Absent}],
           NEW p \in Principal, v[p] # Absent
    PROVE  Gives(p, v[p]) = {f \in Facts(v) : subject(f) = p}
<1> SUFFICES ASSUME NEW c \in Calls, NEW q \in Principal
             PROVE  p \in Reads(c) /\ q \in returned(c, p, v[p])
                       <=> Holds(v, c, q) /\ subject(<<c, q>>) = p
  BY DEF Gives, Facts
<1>1. v[p] \in Data
  OBVIOUS
<1>2. CASE c[1] = "userGroup"
  <2>1. Reads(c) = {c[2]} /\ subject(<<c, q>>) = c[2]
    BY <1>2, ReadsOfCall DEF subject
  <2>2. q \in returned(c, p, v[p]) <=> q \in v[p].users
    BY <1>2 DEF returned
  <2>3. Holds(v, c, q) <=> v[c[2]] # Absent /\ q \in v[c[2]].users
    BY <1>2 DEF Holds
  <2> QED
    BY <2>1, <2>2, <2>3
<1>3. CASE c[1] = "list"
  <2>1. subject(<<c, q>>) = q
    BY <1>3 DEF subject
  <2>2. q \in returned(c, p, v[p]) <=> q = p /\ p \in Of(c[2])
    BY <1>3 DEF returned
  <2>3. Holds(v, c, q) <=> q \in Of(c[2]) /\ v[q] # Absent
    BY <1>3 DEF Holds
  <2>4. Of(c[2]) \subseteq Reads(c)
    BY <1>3, ReadsOfCall
  <2> QED
    BY <2>1, <2>2, <2>3, <2>4
<1>4. CASE c[1] = "role"
  <2>1. subject(<<c, q>>) = q
    BY <1>4 DEF subject
  <2>2. q \in returned(c, p, v[p]) <=> q = p /\ roleGranted(c[2], v[p])
    BY <1>4 DEF returned
  <2>3. Holds(v, c, q) <=> q \in Account \cup Group /\ v[q] # Absent /\ c[2] \in access(v[q])
    BY <1>4 DEF Holds
  <2>4. Reads(c) = Account \cup Group /\ c[2] \in Roles
    BY <1>4, ReadsOfCall, CallForm
  <2>5. roleGranted(c[2], v[p]) <=> c[2] \in access(v[p])
    BY <1>1, <2>4, RoleGrantedIsAccess
  <2> QED
    BY <2>1, <2>2, <2>3, <2>4, <2>5
<1>5. CASE c[1] = "site"
  <2>1. subject(<<c, q>>) = q
    BY <1>5 DEF subject
  <2>2. q \in returned(c, p, v[p]) <=> q = p /\ c[2] \in v[p].sites
    BY <1>5 DEF returned
  <2>3. Holds(v, c, q) <=> v[q] # Absent /\ c[2] \in v[q].sites
    BY <1>5 DEF Holds
  <2>4. Reads(c) = Principal
    BY <1>5, ReadsOfCall
  <2> QED
    BY <2>1, <2>2, <2>3, <2>4
<1> QED
  BY <1>2, <1>3, <1>4, <1>5, CallForm

-----------------------------------------------------------------------------
(* Whatever is known was true.                                             *)

LEMMA KnowInit == Init => KnowInv
<1> SUFFICES ASSUME Init PROVE KnowInv
  OBVIOUS
<1>1. \A w \in Worker : Fetched(w) = {}
  BY DEF Init, Fetched, Nothing
<1> QED
  BY <1>1 DEF Init, KnowInv, ResultsWereTrue

\* Details that are in Jamf are known.
LEMMA WorldKnown ==
    ASSUME TypeInv, KnowInv, NEW p \in Principal, world[p] # Absent
    PROVE  Known(p, world[p])
<1>1. Gives(p, world[p]) = {f \in Facts(world) : subject(f) = p}
  BY GivesFacts DEF TypeInv, TypeOK
<1> QED
  BY <1>1 DEF KnowInv, Known

\* What is known stays so, whatever happens in Jamf.
LEMMA KnownStays ==
    ASSUME ever \subseteq ever', always' \subseteq always,
           NEW p, NEW d, Known(p, d)
    PROVE  Known(p, d)'
  BY DEF Known

LEMMA KnowOfWorker ==
    ASSUME KnowInv, UNCHANGED jamf, UNCHANGED results,
           NEW w \in Worker, Others(w),
           \A p \in Principal : cache'[p] = cache[p] \/ cache'[p] = NotCached
                                  \/ Known(p, cache'[p]),
           \A p \in Fetched(w)' : Known(p, got'[w][p])
    PROVE  KnowInv'
<1>1. /\ Facts(world') \subseteq ever'
      /\ always' \subseteq Facts(world')
      /\ ResultsWereTrue'
  BY DEF KnowInv, jamf, ResultsWereTrue
<1>2. \A p, d : Known(p, d)' <=> Known(p, d)
  BY DEF jamf, Known
<1>3. ASSUME NEW p \in Principal, cache'[p] # NotCached
      PROVE  Known(p, cache'[p])
  BY <1>3 DEF KnowInv
<1>4. ASSUME NEW v \in Worker, NEW p \in Fetched(v)'
      PROVE  Known(p, got'[v][p])
  <2>1. CASE v = w
    BY <1>4, <2>1
  <2>2. CASE v # w
    BY <1>4, <2>2 DEF KnowInv, Others
  <2> QED
    BY <2>1, <2>2
<1> QED
  BY <1>1, <1>2, <1>3, <1>4 DEF KnowInv, Known

LEMMA KnowStep == TypeInv /\ ReadsInv /\ KnowInv /\ [Next]_vars => KnowInv'
<1> SUFFICES ASSUME TypeInv, ReadsInv, KnowInv, [Next]_vars
             PROVE  KnowInv'
  OBVIOUS
<1>1. ASSUME UNCHANGED <<locals, results, jamf>>,
             \A p \in Principal : cache'[p] = cache[p] \/ cache'[p] = NotCached
      PROVE  KnowInv'
  <2>1. \A w \in Worker : Fetched(w)' = Fetched(w) /\ got' = got
    BY <1>1, LocalsKept DEF locals
  <2> QED
    BY <1>1, <2>1 DEF KnowInv, Known, jamf, ResultsWereTrue
<1>2. ASSUME UNCHANGED vars \/ NextPhase \/ (\E f \in Families : ListExpires(f))
               \/ \E p \in Principal : Expires(p)
      PROVE  KnowInv'
  <2>1. UNCHANGED <<locals, results, jamf>>
    BY <1>2 DEF vars, NextPhase, ListExpires, Expires, sync
  <2>2. \A p \in Principal : cache'[p] = cache[p] \/ cache'[p] = NotCached
    BY <1>2 DEF vars, http, NextPhase, ListExpires, Expires, TypeInv, TypeOK
  <2> QED
    BY <1>1, <2>1, <2>2
<1>3. ASSUME NEW v, Change(v)
      PROVE  KnowInv'
  <2>1. /\ world' = v /\ ever' = ever \cup Facts(v) /\ always' = always \cap Facts(v)
        /\ UNCHANGED <<locals, results, cache>>
    BY <1>3 DEF Change, Become, http, sync
  <2>2. \A w \in Worker : Fetched(w)' = Fetched(w) /\ got' = got
    BY <2>1, LocalsKept DEF locals
  <2>3. \A p, d : Known(p, d) => Known(p, d)'
    BY <2>1, KnownStays
  <2>4. /\ Facts(world') \subseteq ever'
        /\ always' \subseteq Facts(world')
        /\ results' \subseteq ever'
    BY <2>1 DEF KnowInv, ResultsWereTrue
  <2>5. ASSUME NEW p \in Principal, cache'[p] # NotCached
        PROVE  Known(p, cache[p])'
    <3>1. PICK d : d = cache[p]
      OBVIOUS
    <3>2. Known(p, d)'
      BY <2>1, <2>3, <2>5, <3>1 DEF KnowInv
    <3>3. d = cache'[p]
      BY <2>1, <3>1
    <3> QED
      BY <3>2, <3>3
  <2>6. ASSUME NEW w \in Worker, NEW p \in Fetched(w)'
        PROVE  Known(p, got[w][p])'
    <3>1. PICK d : d = got[w][p]
      OBVIOUS
    <3>2. Known(p, d)'
      BY <2>2, <2>3, <2>6, <3>1 DEF KnowInv
    <3>3. d = got'[w][p]
      BY <2>2, <3>1
    <3> QED
      BY <3>2, <3>3
  <2> QED
    BY <2>4, <2>5, <2>6 DEF KnowInv, ResultsWereTrue
<1>4. ASSUME NEW w \in Worker, NEW c \in Calls, Begin(w, c)
      PROVE  KnowInv'
  BY <1>4, BeginDoes, KnowOfWorker DEF http
<1>5. ASSUME NEW w \in Worker, TakeList(w)
      PROVE  KnowInv'
  BY <1>5, TakeListDoes, KnowOfWorker DEF http, sync, KnowInv
<1>6. ASSUME NEW w \in Worker, AskList(w)
      PROVE  KnowInv'
  BY <1>6, AskListDoes, KnowOfWorker DEF http, sync, KnowInv
<1>7. ASSUME NEW w \in Worker, KeepList(w)
      PROVE  KnowInv'
  BY <1>7, KeepListDoes, KnowOfWorker DEF sync, KnowInv
<1>8. ASSUME NEW w \in Worker, NEW p \in Principal, Take(w, p)
      PROVE  KnowInv'
  <2>1. ASSUME NEW q \in Fetched(w)'
        PROVE  Known(q, got'[w][q])
    <3>1. CASE q = p
      BY <1>8, <3>1, TakeDoes DEF KnowInv
    <3>2. CASE q # p
      BY <1>8, <2>1, <3>2, TakeDoes DEF KnowInv, Fetched
    <3> QED
      BY <3>1, <3>2
  <2> QED
    BY <1>8, <2>1, TakeDoes, KnowOfWorker DEF http, sync
<1>9. ASSUME NEW w \in Worker, NEW p \in Principal, Ask(w, p)
      PROVE  KnowInv'
  <2>1. ASSUME NEW q \in Fetched(w)'
        PROVE  Known(q, got'[w][q])
    <3>1. CASE q = p
      BY <1>9, <3>1, AskDoes, WorldKnown
    <3>2. CASE q # p
      BY <1>9, <2>1, <3>2, AskDoes DEF KnowInv, Fetched
    <3> QED
      BY <3>1, <3>2
  <2> QED
    BY <1>9, <2>1, AskDoes, KnowOfWorker DEF http, sync
<1>10. ASSUME NEW w \in Worker, Keep(w)
       PROVE  KnowInv'
  <2>1. ASSUME NEW q \in Principal
        PROVE  cache'[q] = cache[q] \/ Known(q, cache'[q])
    <3>1. CASE q = Min(queue[w]) /\ caching
      BY <1>10, <3>1, KeepDoes DEF KnowInv
    <3>2. CASE ~ (q = Min(queue[w]) /\ caching)
      BY <1>10, <3>2, KeepDoes
    <3> QED
      BY <3>1, <3>2
  <2> QED
    BY <1>10, <2>1, KeepDoes, KnowOfWorker DEF sync, KnowInv
<1>11. ASSUME NEW w \in Worker, NEW p \in Principal, NotFound(w, p)
       PROVE  KnowInv'
  BY <1>11, NotFoundDoes, EndDoes, KnowOfWorker DEF http
<1>12. ASSUME NEW w \in Worker, Return(w)
       PROVE  KnowInv'
  <2>1. ASSUME NEW r \in results'
        PROVE  r \in ever
    <3>1. CASE r \in results
      BY <3>1 DEF KnowInv, ResultsWereTrue
    <3>2. CASE r \notin results
      <4>1. PICK p \in Fetched(w) : r[2] \in returned(call[w], p, got[w][p])
        BY <1>12, <2>1, <3>2, ReturnDoes
      <4>2. r = <<call[w], r[2]>> /\ call[w] \in Calls /\ stage[w] # "idle"
        BY <1>12, <2>1, <3>2, ReturnDoes
      <4>3. p \in Reads(call[w])
        BY <4>2 DEF ReadsInv, KeepsToCall
      <4>4. r[2] \in Principal
        BY <4>1 DEF returned
      <4>5. r \in Gives(p, got[w][p])
        BY <4>1, <4>2, <4>3, <4>4 DEF Gives
      <4> QED
        BY <4>5 DEF KnowInv, Known
    <3> QED
      BY <3>1, <3>2
  <2>2. Others(w) /\ UNCHANGED <<jamf, http>> /\ Fetched(w)' = {}
    BY <1>12, ReturnDoes, EndDoes
  <2>3. \A v \in Worker : \A p \in Fetched(v)' : p \in Fetched(v) /\ got'[v][p] = got[v][p]
    BY <2>2 DEF Others
  <2> QED
    BY <2>1, <2>2, <2>3 DEF KnowInv, Known, jamf, http, ResultsWereTrue
<1> QED
  BY <1>2, <1>3, <1>4, <1>5, <1>6, <1>7, <1>8, <1>9, <1>10, <1>11, <1>12, Steps DEF TypeInv

\* Whatever a call returns, it was so in Jamf at some time of this sync
\* although its parts were fetched one by one, from Jamf or from the cache,
\* and privileges beside a built-in set give no grant.
THEOREM OnlyTruthSynced == Spec => []ResultsWereTrue
<1>1. Spec => [](TypeInv /\ ReadsInv /\ KnowInv)
  BY TypeInit, ReadsInit, KnowInit, TypeStep, ReadsStep, KnowStep, PTL DEF Spec
<1>2. KnowInv => ResultsWereTrue
  BY DEF KnowInv
<1> QED
  BY <1>1, <1>2, PTL

-----------------------------------------------------------------------------
(* Whatever held all the time is found.                                    *)

LEMMA CoverInit == Init => CoverInv
  BY DEF Init, CoverInv, StableFactsFound

\* What held all the time is about someone who exists.
LEMMA AlwaysPresent ==
    ASSUME KnowInv, NEW f \in always
    PROVE  /\ f \in Calls \X Principal
           /\ subject(f) \in Principal
           /\ world[subject(f)] # Absent
           /\ subject(f) \in Reads(f[1])
  BY FactsPresent DEF KnowInv

\* What a step of w's has to preserve.
LEMMA CoverOfWorker ==
    ASSUME CoverInv, UNCHANGED <<always, results, completed>>,
           NEW w \in Worker, Others(w),
           \A f \in always :
              /\ stage'[w] # "idle" /\ f[1] = call'[w] => Covers(w, f)'
              /\ stage'[w] = "keepList" /\ subject(f) \in Entries(Head(lists'[w]))
                    => subject(f) \in queue'[w],
           \A g \in Families, f \in always :
              listCache'[g] # NoList /\ subject(f) \in Entries(g) => subject(f) \in listCache'[g]
    PROVE  CoverInv'
<1>1. ASSUME NEW v \in Worker, NEW f \in always
      PROVE  /\ stage'[v] # "idle" /\ f[1] = call'[v] => Covers(v, f)'
             /\ stage'[v] = "keepList" /\ subject(f) \in Entries(Head(lists'[v]))
                   => subject(f) \in queue'[v]
  <2>1. CASE v = w
    BY <2>1
  <2>2. CASE v # w
    BY <2>2 DEF CoverInv, Others, Covers
  <2> QED
    BY <2>1, <2>2
<1>2. StableFactsFound'
  BY DEF CoverInv, StableFactsFound
<1> QED
  BY <1>1, <1>2 DEF CoverInv, subject

LEMMA CoverStep == TypeInv /\ ReadsInv /\ KnowInv /\ CoverInv /\ [Next]_vars => CoverInv'
<1> SUFFICES ASSUME TypeInv, ReadsInv, KnowInv, CoverInv, [Next]_vars
             PROVE  CoverInv'
  OBVIOUS
<1>1. ASSUME UNCHANGED <<locals, results, completed>>, always' \subseteq always,
             \A g \in Families : listCache'[g] = listCache[g] \/ listCache'[g] = NoList
      PROVE  CoverInv'
  <2>1. \A w \in Worker : Fetched(w)' = Fetched(w)
    BY <1>1, LocalsKept
  <2> QED
    BY <1>1, <2>1 DEF CoverInv, Covers, locals, StableFactsFound
<1>2. ASSUME UNCHANGED vars \/ NextPhase \/ (\E f \in Families : ListExpires(f))
               \/ (\E p \in Principal : Expires(p)) \/ \E v : Change(v)
      PROVE  CoverInv'
  <2>1. UNCHANGED <<locals, results, completed>>
    BY <1>2 DEF vars, NextPhase, ListExpires, Expires, Change, Become, sync
  <2>2. \A g \in Families : listCache'[g] = listCache[g] \/ listCache'[g] = NoList
    BY <1>2 DEF vars, http, NextPhase, ListExpires, Expires, Change, Become, TypeInv, TypeOK
  <2>3. always' \subseteq always
    BY <1>2 DEF vars, jamf, NextPhase, ListExpires, Expires, Change, Become
  <2> QED
    BY <1>1, <2>1, <2>2, <2>3
<1>3. ASSUME NEW w \in Worker, NEW c \in Calls, Begin(w, c)
      PROVE  CoverInv'
  <2>1. ASSUME NEW f \in always, f[1] = call'[w]
        PROVE  Covers(w, f)'
    <3>1. f[1] = c /\ subject(f) \in Reads(c) /\ lists'[w] = listsOf(c)
      BY <1>3, <2>1, BeginDoes, AlwaysPresent
    <3>2. CASE c[1] = "userGroup"
      <4>1. queue'[w] = {c[2]} /\ subject(f) = c[2]
        BY <1>3, <3>1, <3>2, BeginDoes DEF subject
      <4> QED
        BY <4>1 DEF Covers, subject
    <3>3. CASE c[1] # "userGroup"
      <4>1. \E g \in Fams(listsOf(c)) : subject(f) \in Entries(g)
        BY <3>1, <3>3, ReadsOfCall
      <4> QED
        BY <3>1, <4>1 DEF Covers, subject
    <3> QED
      BY <3>2, <3>3
  <2>2. stage'[w] = "ask" /\ Others(w) /\ UNCHANGED <<always, listCache, results, completed>>
    BY <1>3, BeginDoes DEF jamf, http
  <2> QED
    BY <2>1, <2>2, CoverOfWorker DEF CoverInv
<1>4. ASSUME NEW w \in Worker, TakeList(w)
      PROVE  CoverInv'
  <2>1. ASSUME NEW f \in always, f[1] = call'[w]
        PROVE  Covers(w, f)'
    <3>1. Covers(w, f)
      BY <1>4, <2>1, TakeListDoes DEF CoverInv
    <3> QED
      BY <1>4, <3>1, TakeListDoes DEF Covers, subject
  <2>2. ASSUME NEW f \in always, subject(f) \in Entries(Head(lists'[w]))
        PROVE  subject(f) \in queue'[w]
    BY <1>4, <2>2, TakeListDoes DEF CoverInv
  <2>3. Others(w) /\ UNCHANGED <<always, listCache, results, completed>>
    BY <1>4, TakeListDoes DEF jamf, http, sync
  <2> QED
    BY <2>1, <2>2, <2>3, CoverOfWorker DEF CoverInv
<1>5. ASSUME NEW w \in Worker, AskList(w)
      PROVE  CoverInv'
  <2>1. ASSUME NEW f \in always, f[1] = call'[w]
        PROVE  Covers(w, f)'
    <3>1. Covers(w, f)
      BY <1>5, <2>1, AskListDoes DEF CoverInv
    <3> QED
      BY <1>5, <3>1, AskListDoes DEF Covers, subject
  <2>2. ASSUME NEW f \in always, subject(f) \in Entries(Head(lists'[w]))
        PROVE  subject(f) \in queue'[w]
    BY <1>5, <2>2, AskListDoes, AlwaysPresent DEF baseList
  <2>3. Others(w) /\ UNCHANGED <<always, listCache, results, completed>>
    BY <1>5, AskListDoes DEF jamf, http, sync
  <2> QED
    BY <2>1, <2>2, <2>3, CoverOfWorker DEF CoverInv
<1>6. ASSUME NEW w \in Worker, KeepList(w)
      PROVE  CoverInv'
  <2>1. ASSUME NEW f \in always, subject(f) \in Entries(Head(lists[w]))
        PROVE  subject(f) \in queue[w]
    BY <1>6, <2>1, KeepListDoes DEF CoverInv
  <2>2. ASSUME NEW f \in always, f[1] = call'[w]
        PROVE  Covers(w, f)'
    <3>1. Covers(w, f)
      BY <1>6, <2>2, KeepListDoes DEF CoverInv
    <3> QED
      BY <1>6, <2>1, <3>1, KeepListDoes DEF Covers, subject
  <2>3. ASSUME NEW g \in Families, NEW f \in always,
               listCache'[g] # NoList, subject(f) \in Entries(g)
        PROVE  subject(f) \in listCache'[g]
    <3>1. CASE g = Head(lists[w]) /\ caching
      BY <1>6, <2>1, <2>3, <3>1, KeepListDoes
    <3>2. CASE ~ (g = Head(lists[w]) /\ caching)
      BY <1>6, <2>3, <3>2, KeepListDoes DEF CoverInv
    <3> QED
      BY <3>1, <3>2
  <2>4. stage'[w] = "ask" /\ Others(w) /\ UNCHANGED <<always, results, completed>>
    BY <1>6, KeepListDoes DEF jamf, sync
  <2> QED
    BY <2>2, <2>3, <2>4, CoverOfWorker
<1>7. ASSUME NEW w \in Worker, NEW p \in Principal, Take(w, p)
      PROVE  CoverInv'
  <2>1. ASSUME NEW f \in always, f[1] = call'[w]
        PROVE  Covers(w, f)'
    <3>1. Covers(w, f)
      BY <1>7, <2>1, TakeDoes DEF CoverInv
    <3> QED
      BY <1>7, <3>1, TakeDoes DEF Covers, subject
  <2>2. stage'[w] = "keep" /\ Others(w) /\ UNCHANGED <<always, listCache, results, completed>>
    BY <1>7, TakeDoes DEF jamf, http, sync
  <2> QED
    BY <2>1, <2>2, CoverOfWorker DEF CoverInv
<1>8. ASSUME NEW w \in Worker, NEW p \in Principal, Ask(w, p)
      PROVE  CoverInv'
  <2>1. ASSUME NEW f \in always, f[1] = call'[w]
        PROVE  Covers(w, f)'
    <3>1. Covers(w, f)
      BY <1>8, <2>1, AskDoes DEF CoverInv
    <3> QED
      BY <1>8, <3>1, AskDoes DEF Covers, subject
  <2>2. stage'[w] = "keep" /\ Others(w) /\ UNCHANGED <<always, listCache, results, completed>>
    BY <1>8, AskDoes DEF jamf, http, sync
  <2> QED
    BY <2>1, <2>2, CoverOfWorker DEF CoverInv
<1>9. ASSUME NEW w \in Worker, Keep(w)
      PROVE  CoverInv'
  <2>1. ASSUME NEW f \in always, f[1] = call'[w]
        PROVE  Covers(w, f)'
    <3>1. Covers(w, f)
      BY <1>9, <2>1, KeepDoes DEF CoverInv
    <3> QED
      BY <1>9, <3>1, KeepDoes DEF Covers, subject
  <2>2. stage'[w] = "ask" /\ Others(w) /\ UNCHANGED <<always, listCache, results, completed>>
    BY <1>9, KeepDoes DEF jamf, sync
  <2> QED
    BY <2>1, <2>2, CoverOfWorker DEF CoverInv
<1>10. ASSUME NEW w \in Worker, NEW p \in Principal, NotFound(w, p)
       PROVE  CoverInv'
  <2>1. stage'[w] = "idle" /\ Others(w) /\ UNCHANGED <<always, listCache, results, completed>>
    BY <1>10, NotFoundDoes, EndDoes DEF jamf, http
  <2> QED
    BY <2>1, CoverOfWorker DEF CoverInv
<1>11. ASSUME NEW w \in Worker, Return(w)
       PROVE  CoverInv'
  <2>1. /\ stage'[w] = "idle" /\ Others(w) /\ UNCHANGED <<always, listCache>>
        /\ results \subseteq results'
    BY <1>11, ReturnDoes, EndDoes DEF jamf, http
  <2>2. ASSUME NEW f \in always, f[1] = call[w]
        PROVE  f \in results'
    <3>1. Covers(w, f) /\ queue[w] = {} /\ Fams(lists[w]) = {}
      BY <1>11, <2>2, ReturnDoes, FamsEmpty DEF CoverInv
    <3>2. subject(f) \in Fetched(w)
      BY <3>1 DEF Covers
    <3>3. f \in Gives(subject(f), got[w][subject(f)])
      BY <3>2 DEF KnowInv, Known
    <3>4. f[2] \in returned(call[w], subject(f), got[w][subject(f)])
      BY <2>2, <3>3 DEF Gives
    <3>5. f = <<f[1], f[2]>>
      BY AlwaysPresent
    <3> QED
      BY <1>11, <2>2, <3>2, <3>4, <3>5, ReturnDoes
  <2>3. completed' = completed \cup {call[w]}
    BY <1>11, ReturnDoes
  <2>4. StableFactsFound'
    BY <2>1, <2>2, <2>3 DEF CoverInv, StableFactsFound
  <2>5. ASSUME NEW v \in Worker, NEW f \in always
        PROVE  /\ stage'[v] # "idle" /\ f[1] = call'[v] => Covers(v, f)'
               /\ stage'[v] = "keepList" /\ subject(f) \in Entries(Head(lists'[v]))
                     => subject(f) \in queue'[v]
    <3>1. CASE v = w
      BY <2>1, <3>1
    <3>2. CASE v # w
      BY <2>1, <3>2 DEF CoverInv, Others, Covers
    <3> QED
      BY <3>1, <3>2
  <2> QED
    BY <2>1, <2>4, <2>5 DEF CoverInv, subject
<1> QED
  BY <1>2, <1>3, <1>4, <1>5, <1>6, <1>7, <1>8, <1>9, <1>10, <1>11, Steps DEF TypeInv

\* What held during the whole sync is in the answer of every call that
\* returned, whatever else was edited, created or deleted meanwhile.
THEOREM StableFactsSynced == Spec => []StableFactsFound
<1>1. Spec => [](TypeInv /\ ReadsInv /\ KnowInv /\ CoverInv)
  BY TypeInit, ReadsInit, KnowInit, CoverInit, TypeStep, ReadsStep, KnowStep, CoverStep, PTL
     DEF Spec
<1>2. CoverInv => StableFactsFound
  BY DEF CoverInv
<1> QED
  BY <1>1, <1>2, PTL

-----------------------------------------------------------------------------
(* A call is skipped only because something was deleted.                   *)

LEMMA ExistInit == Init => ExistInv
<1> SUFFICES ASSUME Init PROVE ExistInv
  OBVIOUS
<1>1. \A f \in ever : f[1][1] = "list" => f[2] \in existed
  BY DEF Init, Facts, Holds
<1>2. \A c \in todo : c[1] # "userGroup"
  BY DEF Init, Lists
<1> QED
  BY <1>1, <1>2 DEF Init, ExistInv, SkippedByDeletion

\* Whoever is gone stays gone: ids are not given out twice.
LEMMA GoneStays ==
    ASSUME TypeInv, NEW v, Change(v)
    PROVE  Gone \subseteq Gone'
<1>1. /\ world' = v /\ existed' = existed \cup {p \in Principal : v[p] # Absent}
      /\ \A p \in Principal : world[p] = Absent /\ v[p] # Absent => p \notin existed
  BY DEF Change, Become
<1>2. existed \subseteq Principal
  BY DEF TypeInv, TypeOK
<1> QED
  BY <1>1, <1>2 DEF Gone

LEMMA ExistOfWorker ==
    ASSUME ExistInv, UNCHANGED <<jamf, skipped>>, NEW w \in Worker, Others(w),
           queue'[w] \subseteq existed,
           \A f \in Families : listCache'[f] = listCache[f] \/ listCache'[f] \subseteq existed,
           todo' \subseteq todo
    PROVE  ExistInv'
  BY DEF ExistInv, SkippedByDeletion, Gone, Others, jamf

LEMMA ExistStep == TypeInv /\ ReadsInv /\ KnowInv /\ ExistInv /\ [Next]_vars => ExistInv'
<1> SUFFICES ASSUME TypeInv, ReadsInv, KnowInv, ExistInv, [Next]_vars
             PROVE  ExistInv'
  OBVIOUS
<1>1. ASSUME UNCHANGED vars \/ (\E f \in Families : ListExpires(f))
               \/ \E p \in Principal : Expires(p)
      PROVE  ExistInv'
  <2>1. UNCHANGED <<jamf, queue, todo, skipped>>
    BY <1>1 DEF vars, ListExpires, Expires, sync, locals
  <2>2. \A g \in Families : listCache'[g] = listCache[g] \/ listCache'[g] = NoList
    BY <1>1 DEF vars, http, ListExpires, Expires, TypeInv, TypeOK
  <2> QED
    BY <2>1, <2>2 DEF ExistInv, SkippedByDeletion, Gone, jamf
<1>2. ASSUME NEW v, Change(v)
      PROVE  ExistInv'
  <2>1. /\ world' = v /\ existed' = existed \cup {p \in Principal : v[p] # Absent}
        /\ ever' = ever \cup Facts(v)
        /\ UNCHANGED <<listCache, queue, todo, skipped>>
    BY <1>2 DEF Change, Become, http, sync, locals
  <2>3. Gone \subseteq Gone'
    BY <1>2, GoneStays
  <2>4. SkippedByDeletion'
    BY <2>1, <2>3 DEF ExistInv, SkippedByDeletion
  <2>5. \A f \in Facts(v) : f[1][1] = "list" => f[2] \in existed'
    BY <2>1 DEF Facts, Holds
  <2> QED
    BY <2>1, <2>4, <2>5 DEF ExistInv
<1>3. CASE NextPhase
  <2>1. \A c \in todo' : c[1] = "userGroup" => c[2] \in existed
    <3>1. ASSUME NEW c \in todo', c[1] = "userGroup"
          PROVE  c[2] \in existed
      <4>1. <<<<"list", "userGroup">>, c[2]>> \in ever
        BY <1>3, <3>1 DEF NextPhase, KnowInv, ResultsWereTrue
      <4> QED
        BY <4>1 DEF ExistInv
    <3> QED
      BY <3>1
  <2>2. UNCHANGED <<jamf, queue, listCache, skipped>>
    BY <1>3 DEF NextPhase, http, locals
  <2> QED
    BY <2>1, <2>2 DEF ExistInv, SkippedByDeletion, Gone, jamf
<1>4. ASSUME NEW w \in Worker, NEW c \in Calls, Begin(w, c)
      PROVE  ExistInv'
  <2>1. queue'[w] \subseteq existed
    BY <1>4, BeginDoes DEF ExistInv
  <2> QED
    BY <1>4, <2>1, BeginDoes, ExistOfWorker DEF http
<1>5. ASSUME NEW w \in Worker, TakeList(w)
      PROVE  ExistInv'
  <2>1. queue'[w] \subseteq existed
    BY <1>5, TakeListDoes DEF ExistInv
  <2> QED
    BY <1>5, <2>1, TakeListDoes, ExistOfWorker DEF http, sync
<1>6. ASSUME NEW w \in Worker, AskList(w)
      PROVE  ExistInv'
  <2>1. queue'[w] \subseteq existed
    BY <1>6, AskListDoes, EntriesDisjoint DEF ExistInv, baseList
  <2> QED
    BY <1>6, <2>1, AskListDoes, ExistOfWorker DEF http, sync
<1>7. ASSUME NEW w \in Worker, KeepList(w)
      PROVE  ExistInv'
  <2>1. queue[w] \subseteq existed
    BY DEF ExistInv
  <2>2. ASSUME NEW f \in Families
        PROVE  listCache'[f] = listCache[f] \/ listCache'[f] \subseteq existed
    <3>1. CASE f = Head(lists[w]) /\ caching
      BY <1>7, <2>1, <3>1, KeepListDoes
    <3>2. CASE ~ (f = Head(lists[w]) /\ caching)
      BY <1>7, <3>2, KeepListDoes
    <3> QED
      BY <3>1, <3>2
  <2> QED
    BY <1>7, <2>1, <2>2, KeepListDoes, ExistOfWorker DEF sync
<1>8. ASSUME NEW w \in Worker, NEW p \in Principal, Take(w, p)
      PROVE  ExistInv'
  <2>1. queue'[w] \subseteq existed
    BY <1>8, TakeDoes DEF ExistInv
  <2> QED
    BY <1>8, <2>1, TakeDoes, ExistOfWorker DEF http, sync
<1>9. ASSUME NEW w \in Worker, NEW p \in Principal, Ask(w, p)
      PROVE  ExistInv'
  <2>1. queue'[w] \subseteq existed
    BY <1>9, AskDoes DEF ExistInv
  <2> QED
    BY <1>9, <2>1, AskDoes, ExistOfWorker DEF http, sync
<1>10. ASSUME NEW w \in Worker, Keep(w)
       PROVE  ExistInv'
  <2>1. queue'[w] \subseteq existed
    BY <1>10, KeepDoes DEF ExistInv
  <2> QED
    BY <1>10, <2>1, KeepDoes, ExistOfWorker DEF sync
<1>11. ASSUME NEW w \in Worker, NEW p \in Principal, NotFound(w, p)
       PROVE  ExistInv'
  <2>1. /\ queue'[w] = {} /\ Others(w)
        /\ UNCHANGED <<world, existed, ever, listCache, todo>>
        /\ skipped' = skipped \cup {call[w]}
    BY <1>11, NotFoundDoes, EndDoes DEF jamf, http
  <2>2. p \in Gone /\ p \in Reads(call[w])
    BY <1>11, NotFoundDoes DEF ExistInv, Gone, ReadsInv, KeepsToCall
  <2>3. SkippedByDeletion'
    BY <2>1, <2>2 DEF ExistInv, SkippedByDeletion, Gone
  <2>4. \A v \in Worker : queue'[v] \subseteq existed
    BY <2>1 DEF ExistInv, Others
  <2> QED
    BY <2>1, <2>3, <2>4 DEF ExistInv
<1>12. ASSUME NEW w \in Worker, Return(w)
       PROVE  ExistInv'
  BY <1>12, ReturnDoes, EndDoes, ExistOfWorker DEF http
<1> QED
  BY <1>1, <1>2, <1>3, <1>4, <1>5, <1>6, <1>7, <1>8, <1>9, <1>10, <1>11, <1>12, Steps DEF TypeInv

\* A call of this sync is skipped only if someone it reads about existed
\* during the sync and is gone.
THEOREM SkipsExplained == Spec => []SkippedByDeletion
<1>1. Spec => [](TypeInv /\ ReadsInv /\ KnowInv /\ ExistInv)
  BY TypeInit, ReadsInit, KnowInit, ExistInit, TypeStep, ReadsStep, KnowStep, ExistStep, PTL
     DEF Spec
<1>2. ExistInv => SkippedByDeletion
  BY DEF ExistInv
<1> QED
  BY <1>1, <1>2, PTL
=============================================================================
